---- MODULE Spec2Model ----
(***************************************************************************)
(* Model of the Hardhat explorer front-end:                                *)
(*   - ContractDetailsModal.fetchContractDetails (contract introspection)  *)
(*   - TransactionModal.fetchTransactions        (transaction scan)        *)
(*   - useHardhatNode.connectToNode              (node connector)          *)
(* Every await of the source is a position of the modelled coroutine; the  *)
(* JSON-RPC node is the environment and answers or fails each request.     *)
(***************************************************************************)
EXTENDS Integers, Sequences, FiniteSets, TLC

VARIABLES
    \* ---- environment: the node
    chainCode,            \* address -> bytecode returned by eth_getCode
    \* ---- ContractDetailsModal
    contractAddress,      \* prop
    variables,            \* useState<ContractVariable[]>
    functions,            \* useState<ContractFunction[]>
    isLoading,            \* useState(true)
    error,                \* useState<string | null>
    pc,                   \* position of fetchContractDetails
    code,                 \* local of fetchContractDetails
    stateVars,            \* local of fetchContractDetails
    discoveredFunctions,  \* local of fetchContractDetails
    probeIdx,             \* index of the tryFunction call being awaited
    inflight,             \* contract calls issued and not yet settled
    timers,               \* setTimeout timers set and not yet fired
    probeOutcome,         \* history: how each probe's race was decided
    probeReturned,        \* history: what each call returned
    lateResolved,         \* history: calls that resolved after their timer
    rpcLog,               \* history: requests issued by the introspection
    \* ---- environment: the chain
    chainHeight,          \* number of the latest block
    chainTxs,             \* the transactions of the chain, in chain order
    \* ---- TransactionModal
    address,              \* prop
    transactions,         \* useState<Transaction[]>
    txIsLoading,          \* useState(true)
    txError,              \* useState<string | null>
    txPc,                 \* position of fetchTransactions
    fromBlock,            \* local of fetchTransactions
    blocks,               \* local of fetchTransactions
    allTxs,               \* local of fetchTransactions
    txRequests,           \* history: requests issued by the scan
    \* ---- environment: configuration and node
    configChainId,        \* config.chainId
    networkChainId,       \* chain id the node reports
    nodeAccounts,         \* the accounts the node manages, in node order
    nodeBalance,          \* address -> balance in wei
    \* ---- useHardhatNode
    accounts,             \* useState<AccountInfo[]>
    contracts,            \* useState<ContractInfo[]>
    chainId,              \* useState<number>(-1)
    blockNumber,          \* useState<number>(0)
    nodeIsLoading,        \* useState<boolean>(true)  (isLoading)
    nodeError,            \* useState<string | null>  (error)
    nodePc,               \* position of connectToNode
    listedAccounts,       \* local `accounts` of connectToNode
    nodeRequests,         \* history: requests issued by the connector
    \* ---- balance formatting
    fmtWei,               \* `balance` returned by getBalance, in wei
    fmtShown,             \* the string put into AccountInfo.balance
    \* ---- CopyButton
    copied,               \* useState(false)
    copyPending,          \* handleCopy calls awaiting clipboard.writeText
    copyTimers,           \* ms left on each setTimeout set, oldest first
    copyClicks,           \* history: clicks so far
    sinceWrite,           \* history: ms since the last successful write
    \* ---- NodeInfo
    infoAccounts,         \* prop `accounts`
    infoBalance,          \* environment: address -> balance in wei
    accountDetails,       \* useState<AccountInfo[]>([])
    isLoadingBalances,    \* useState(true)
    activeTab,            \* useState<TabType>('signer')
    infoPc,               \* position of fetchAccountDetails
    infoArrived,          \* indices whose getBalance has resolved, in arrival order
    infoFailed,           \* history: the load ended in the catch block
    \* ---- ContractDetailsModal across changes of its prop
    viewAddress,          \* prop contractAddress of the mounted modal
    viewLoading,          \* isLoading
    shownOf,              \* address whose introspection set variables / functions
    errorOf,              \* address whose introspection set error
    effectDue,            \* the effect on [contractAddress] has to run
    fetches,              \* addresses of the introspections in flight
    propChanges,          \* history: changes of the prop so far
    \* ---- environment: configuration
    rpcUrl                \* config.rpcUrl

detailsVars == <<chainCode, contractAddress, variables, functions, isLoading,
                 error, pc, code, stateVars, discoveredFunctions, probeIdx,
                 inflight, timers, probeOutcome, probeReturned, lateResolved,
                 rpcLog>>

txVars == <<chainHeight, chainTxs, address, transactions, txIsLoading, txError,
            txPc, fromBlock, blocks, allTxs, txRequests>>

nodeVars == <<configChainId, networkChainId, nodeAccounts, nodeBalance, accounts,
              contracts, chainId, blockNumber, nodeIsLoading, nodeError, nodePc,
              listedAccounts, nodeRequests>>

fmtVars == <<fmtWei, fmtShown>>

copyVars == <<copied, copyPending, copyTimers, copyClicks, sinceWrite>>

infoVars == <<infoAccounts, infoBalance, accountDetails, isLoadingBalances,
              activeTab, infoPc, infoArrived, infoFailed>>

viewVars == <<viewAddress, viewLoading, shownOf, errorOf, effectDue, fetches,
              propChanges>>

extraVars == <<fmtVars, copyVars, infoVars, viewVars, rpcUrl>>

\* the endpoint of a Hardhat node started with its defaults
DefaultRpcUrl == "http://127.0.0.1:8545"

\* REACT_APP_RPC_URL || 'http://127.0.0.1:8545'
RpcUrls == {DefaultRpcUrl, "http://10.0.0.5:8545"}

\* the configuration of an installation that sets no REACT_APP_RPC_URL
ConfigDefault == rpcUrl = DefaultRpcUrl

vars == <<detailsVars, txVars, nodeVars, extraVars>>

Null == "null"

-----------------------------------------------------------------------------
(* Addresses and values of the modelled node                               *)

AddrToken == "0x5FbDB2315678afecb367f032d93F642f64180aa3"
AddrPlain == "0x70997970C51812dc3A010C7d01b50e0d17dc79C8"
ValidAddresses == {AddrToken, AddrPlain}
ContractAddressProps == ValidAddresses \cup {"", "   ", "0x12345"}

EmptyCode == "0x"
SomeCode == "0x6080604052"

\* ethers.utils.isAddress
isAddress(a) == a \in ValidAddresses

\* String.prototype.trim() !== '' together with the truthiness test
isBlank(a) == a \in {"", "   "}

Str(s) == [kind |-> "string", s |-> s]
Num(n) == [kind |-> "number", n |-> n]
Big(d) == [kind |-> "BigNumber", digits |-> d]
Undefined == [kind |-> "undefined"]

OneEther == <<1, 0,0,0,0,0,0, 0,0,0,0,0,0, 0,0,0,0,0,0>>
Balances == {<<1>>, OneEther}

-----------------------------------------------------------------------------
(* Value formatting                                                        *)

RECURSIVE DigitsToStr(_)
\* BigNumber.prototype.toString: the decimal digits as text
DigitsToStr(d) == IF d = <<>> THEN "" ELSE ToString(Head(d)) \o DigitsToStr(Tail(d))

RECURSIVE StripTrailingZeros(_)
StripTrailingZeros(d) ==
    IF Len(d) > 1 /\ d[Len(d)] = 0
    THEN StripTrailingZeros(SubSeq(d, 1, Len(d) - 1))
    ELSE d

RECURSIVE PadLeft(_, _)
PadLeft(d, n) == IF Len(d) >= n THEN d ELSE PadLeft(<<0>> \o d, n)

EtherDecimals == 18

\* ethers.utils.formatEther: wei (decimal digits) -> "<whole>.<fraction>",
\* 18 decimals, trailing zeros of the fraction dropped, at least one kept
formatEther(d) ==
    LET p == PadLeft(d, EtherDecimals + 1)
        whole == SubSeq(p, 1, Len(p) - EtherDecimals)
        frac  == StripTrailingZeros(SubSeq(p, Len(p) - EtherDecimals + 1, Len(p)))
    IN  DigitsToStr(whole) \o "." \o DigitsToStr(frac)

\* type.startsWith('uint') || type.startsWith('int')
isIntType(type) == type \in {"uint8", "uint256"}

\* formatValue that sends every value of an integer type through formatEther
formatValue_EtherForNumbers(value, type) ==
    CASE value.kind = "undefined" -> "null"
      [] value.kind = "BigNumber" ->
            IF isIntType(type)
            THEN formatEther(value.digits) \o " ETH"
            ELSE DigitsToStr(value.digits)
      [] value.kind = "number" ->
            IF isIntType(type)
            THEN ToString(value.n) \o ".0 ETH"
            ELSE ToString(value.n)
      [] OTHER -> value.s

\* formatValue(value, type) of ContractDetailsModal
formatValue(value, type) ==
    CASE value.kind = "undefined" -> "null"
      [] value.kind = "BigNumber" ->
            IF isIntType(type)
            THEN formatEther(value.digits) \o " ETH"
            ELSE DigitsToStr(value.digits)
      [] value.kind = "number" -> ToString(value.n)
      [] OTHER -> value.s

-----------------------------------------------------------------------------
(* ContractDetailsModal.fetchContractDetails                               *)

ProbeNames == <<"name", "symbol", "decimals", "totalSupply", "owner">>
ProbeTypes == <<"string", "string", "uint8", "uint256", "address">>
DonationProbe == "getDonationsCount"
TriedProbes == {ProbeNames[i] : i \in 1..Len(ProbeNames)}
AllProbes == TriedProbes \cup {DonationProbe}

\* the signatures of genericABI that take no arguments
genericABI ==
    {"name", "symbol", "decimals", "totalSupply", "owner", "getOwner", "isOwner",
     "proposalCount", "rewardRate", "totalStaked", "getReward", "getReserves",
     "token0", "token1", "minDonation", "maxDonation", "getDonationsCount",
     "getCount"}

\* what the inspected contract can answer to each call, as ethers decodes it
ReturnValues(n) ==
    CASE n = "name"        -> {Str("MyToken"), Str("")}
      [] n = "symbol"      -> {Str("MTK")}
      [] n = "decimals"    -> {Num(18)}
      [] n = "totalSupply" -> {Big(OneEther)}
      [] n = "owner"       -> {Str(AddrPlain)}
      [] OTHER             -> {Big(<<0>>)}

ContractVariable(name, value, type, constant) ==
    [name |-> name, value |-> value, type |-> type, constant |-> constant]

ContractFunction(name, type) ==
    [name |-> name, inputs |-> <<>>,
     outputs |-> <<[name |-> "", type |-> type]>>, stateMutability |-> "view"]

Names(seq) == {seq[i].name : i \in 1..Len(seq)}

RaceCall(res) == [success |-> TRUE, result |-> res]
RaceTimer == [success |-> FALSE, result |-> Undefined]

\* tryFunction that pushes whatever the race produced
tryFunctionVars_NoSuccessTest(sv, name, type, result) ==
    Append(sv, ContractVariable(name, formatValue(result.result, type), type, FALSE))

\* tryFunction, after the race: the state variables it leaves
tryFunctionVars(sv, name, type, result) ==
    IF result.success /\ result.result # Undefined
    THEN Append(sv, ContractVariable(name, formatValue(result.result, type), type, FALSE))
    ELSE sv

\* tryFunction, after the race: the discovered functions it leaves
tryFunctionFuncs(df, name, type, result) ==
    IF result.success /\ result.result # Undefined
    THEN Append(df, ContractFunction(name, type))
    ELSE df

\* presence rules that test the owner before the token functions
contractType_OwnerFirst(df) ==
    IF "owner" \in Names(df)
    THEN "Ownable Contract"
    ELSE IF "name" \in Names(df) /\ "symbol" \in Names(df) /\ "decimals" \in Names(df)
         THEN "ERC20 Token" ELSE "Unknown Contract"

\* the presence rules that pick the first contractType label
contractType(df) ==
    IF "name" \in Names(df) /\ "symbol" \in Names(df) /\ "decimals" \in Names(df)
    THEN "ERC20 Token"
    ELSE IF "owner" \in Names(df) THEN "Ownable Contract" ELSE "Unknown Contract"

DetailsError(message) == "Failed to load contract details: " \o message
RpcFailure == "could not detect network"

DetailsInit ==
    /\ chainCode = [a \in ValidAddresses |-> IF a = AddrToken THEN SomeCode ELSE EmptyCode]
    /\ contractAddress \in ContractAddressProps
    /\ variables = <<>>
    /\ functions = <<>>
    /\ isLoading = TRUE
    /\ error = Null
    /\ pc = "effect"
    /\ code = Null
    /\ stateVars = <<>>
    /\ discoveredFunctions = <<>>
    /\ probeIdx = 0
    /\ inflight = {}
    /\ timers = {}
    /\ probeOutcome = [n \in genericABI |-> "unissued"]
    /\ probeReturned = [n \in genericABI |-> Undefined]
    /\ lateResolved = {}
    /\ rpcLog = {}

\* the modal is not mounted
DetailsIdle ==
    /\ contractAddress = ""
    /\ variables = <<>>
    /\ functions = <<>>
    /\ isLoading = TRUE
    /\ error = Null
    /\ pc = "unmounted"
    /\ code = Null
    /\ stateVars = <<>>
    /\ discoveredFunctions = <<>>
    /\ probeIdx = 0
    /\ inflight = {}
    /\ timers = {}
    /\ probeOutcome = [n \in genericABI |-> "unissued"]
    /\ probeReturned = [n \in genericABI |-> Undefined]
    /\ lateResolved = {}
    /\ rpcLog = {}

\* the catch block of fetchContractDetails
DetailsCatch(message) ==
    /\ error' = DetailsError(message)
    /\ isLoading' = FALSE
    /\ pc' = "done"

\* useEffect on [contractAddress] with a blank address: no fetch
EffectSkip ==
    /\ pc = "effect"
    /\ isBlank(contractAddress)
    /\ isLoading' = FALSE
    /\ pc' = "done"
    /\ UNCHANGED <<txVars, nodeVars, extraVars, chainCode, contractAddress, code, variables, functions, error,
                   stateVars, discoveredFunctions, probeIdx, inflight, timers,
                   probeOutcome, probeReturned, lateResolved, rpcLog>>

\* fetchContractDetails without the isAddress test: getCode is issued
FetchInvalidAddress_NoCheck ==
    /\ pc = "effect"
    /\ ~isBlank(contractAddress)
    /\ ~isAddress(contractAddress)
    /\ isLoading' = TRUE
    /\ error' = Null
    /\ rpcLog' = rpcLog \cup {"getCode"}
    /\ pc' = "getCode"
    /\ UNCHANGED <<txVars, nodeVars, extraVars, chainCode, contractAddress, code, variables, functions,
                   stateVars, discoveredFunctions, probeIdx, inflight, timers,
                   probeOutcome, probeReturned, lateResolved>>

\* fetchContractDetails up to its first await, address rejected by isAddress
FetchInvalidAddress ==
    /\ pc = "effect"
    /\ ~isBlank(contractAddress)
    /\ ~isAddress(contractAddress)
    /\ DetailsCatch("Invalid contract address format")
    /\ UNCHANGED <<txVars, nodeVars, extraVars, chainCode, contractAddress, code, variables, functions,
                   stateVars, discoveredFunctions, probeIdx, inflight, timers,
                   probeOutcome, probeReturned, lateResolved, rpcLog>>

\* fetchContractDetails up to its first await: provider.getCode is issued
FetchStart ==
    /\ pc = "effect"
    /\ ~isBlank(contractAddress)
    /\ isAddress(contractAddress)
    /\ isLoading' = TRUE
    /\ error' = Null
    /\ rpcLog' = rpcLog \cup {"getCode"}
    /\ pc' = "getCode"
    /\ UNCHANGED <<txVars, nodeVars, extraVars, chainCode, contractAddress, code, variables, functions,
                   stateVars, discoveredFunctions, probeIdx, inflight, timers,
                   probeOutcome, probeReturned, lateResolved>>

\* getCode handling without the code === '0x' test
GetCodeEmpty_NoTest ==
    /\ pc = "getCode"
    /\ chainCode[contractAddress] = EmptyCode
    /\ code' = chainCode[contractAddress]
    /\ rpcLog' = rpcLog \cup {"getBalance"}
    /\ pc' = "getBalance"
    /\ UNCHANGED <<txVars, nodeVars, extraVars, chainCode, contractAddress, variables, functions, isLoading,
                   error, stateVars, discoveredFunctions, probeIdx, inflight,
                   timers, probeOutcome, probeReturned, lateResolved>>

\* await provider.getCode resolves with empty code: throw
GetCodeEmpty ==
    /\ pc = "getCode"
    /\ chainCode[contractAddress] = EmptyCode
    /\ code' = chainCode[contractAddress]
    /\ DetailsCatch("No contract code at this address")
    /\ UNCHANGED <<txVars, nodeVars, extraVars, chainCode, contractAddress, variables, functions,
                   stateVars, discoveredFunctions, probeIdx, inflight, timers,
                   probeOutcome, probeReturned, lateResolved, rpcLog>>

\* await provider.getCode resolves with code: provider.getBalance is issued
GetCodeDeployed ==
    /\ pc = "getCode"
    /\ chainCode[contractAddress] # EmptyCode
    /\ code' = chainCode[contractAddress]
    /\ rpcLog' = rpcLog \cup {"getBalance"}
    /\ pc' = "getBalance"
    /\ UNCHANGED <<txVars, nodeVars, extraVars, chainCode, contractAddress, variables, functions, isLoading,
                   error, stateVars, discoveredFunctions, probeIdx, inflight,
                   timers, probeOutcome, probeReturned, lateResolved>>

\* provider.getCode or provider.getBalance rejects
DetailsRpcReject ==
    /\ pc \in {"getCode", "getBalance"}
    /\ DetailsCatch(RpcFailure)
    /\ UNCHANGED <<txVars, nodeVars, extraVars, chainCode, contractAddress, code, variables, functions,
                   stateVars, discoveredFunctions, probeIdx, inflight, timers,
                   probeOutcome, probeReturned, lateResolved, rpcLog>>

\* tryFunction(name) up to its await: the call is issued and the timer set
\* tryFunction issuing every probe of the list at once
IssueProbe_AllAtOnce(n, infl, tmrs, outcomes) ==
    /\ inflight' = infl \cup {n} \cup {m \in TriedProbes : outcomes[m] = "unissued"}
    /\ timers' = tmrs \cup {n} \cup {m \in TriedProbes : outcomes[m] = "unissued"}
    /\ rpcLog' = rpcLog \cup {n} \cup {m \in TriedProbes : outcomes[m] = "unissued"}
    /\ probeOutcome' =
          [m \in DOMAIN outcomes |->
              IF m = n \/ (m \in TriedProbes /\ outcomes[m] = "unissued")
              THEN "pending" ELSE outcomes[m]]

\* tryFunction awaiting the call alone, without a timer to race against
IssueProbe_NoTimer(n, infl, tmrs, outcomes) ==
    /\ inflight' = infl \cup {n}
    /\ timers' = tmrs
    /\ rpcLog' = rpcLog \cup {n}
    /\ probeOutcome' = [outcomes EXCEPT ![n] = "pending"]

\* contract[name]() is called and the timer of its race is set
IssueProbe(n, infl, tmrs, outcomes) ==
    /\ inflight' = infl \cup {n}
    /\ timers' = tmrs \cup {n}
    /\ rpcLog' = rpcLog \cup {n}
    /\ probeOutcome' = [outcomes EXCEPT ![n] = "pending"]

\* await provider.getBalance resolves: balance and address variables, then
\* the first tryFunction starts
GetBalanceResolve(b) ==
    /\ pc = "getBalance"
    /\ stateVars' = << ContractVariable("balance", formatEther(b) \o " ETH", "uint256", FALSE),
                       ContractVariable("address", contractAddress, "address", TRUE) >>
    /\ discoveredFunctions' = <<>>
    /\ probeIdx' = 1
    /\ pc' = "probe"
    /\ IssueProbe(ProbeNames[1], inflight, timers, probeOutcome)
    /\ UNCHANGED <<txVars, nodeVars, extraVars, chainCode, contractAddress, code, variables, functions, isLoading,
                   error, probeReturned, lateResolved>>

\* the code that follows the return of the i-th tryFunction
AfterTry(i, sv, df, infl, tmrs, outcomes) ==
    IF i < Len(ProbeNames)
    THEN /\ stateVars' = sv
         /\ discoveredFunctions' = df
         /\ probeIdx' = i + 1
         /\ pc' = "probe"
         /\ IssueProbe(ProbeNames[i + 1], infl, tmrs, outcomes)
    ELSE /\ stateVars' = Append(sv, ContractVariable("contractType", contractType(df), "string", TRUE))
         /\ discoveredFunctions' = df
         /\ probeIdx' = i
         /\ pc' = "donation"
         /\ IssueProbe(DonationProbe, infl, tmrs, outcomes)

Awaited(n) ==
    \/ pc = "probe" /\ ProbeNames[probeIdx] = n /\ probeOutcome[n] = "pending"
    \/ pc = "donation" /\ n = DonationProbe /\ probeOutcome[n] = "pending"

\* setVariables .. setIsLoading(false) at the end of the try block
Publish(sv, df) ==
    /\ variables' = sv
    /\ functions' = df
    /\ isLoading' = FALSE
    /\ pc' = "done"

\* contract[name]() resolves while tryFunction awaits the race
ProbeResolve(n, v) ==
    /\ pc = "probe" /\ Awaited(n) /\ n \in inflight
    /\ probeReturned' = [probeReturned EXCEPT ![n] = v]
    /\ AfterTry(probeIdx,
                tryFunctionVars(stateVars, n, ProbeTypes[probeIdx], RaceCall(v)),
                tryFunctionFuncs(discoveredFunctions, n, ProbeTypes[probeIdx], RaceCall(v)),
                inflight \ {n}, timers,
                [probeOutcome EXCEPT ![n] = "success"])
    /\ UNCHANGED <<txVars, nodeVars, extraVars, chainCode, contractAddress, code, variables, functions, isLoading,
                   error, lateResolved>>

\* tryFunction without its try/catch: the rejection reaches the outer catch
ProbeReject_Uncaught(n) ==
    /\ pc = "probe" /\ Awaited(n) /\ n \in inflight
    /\ inflight' = inflight \ {n}
    /\ probeOutcome' = [probeOutcome EXCEPT ![n] = "revert"]
    /\ DetailsCatch("call revert exception")
    /\ UNCHANGED <<txVars, nodeVars, extraVars, chainCode, contractAddress, code, variables, functions,
                   stateVars, discoveredFunctions, probeIdx, timers,
                   probeReturned, lateResolved, rpcLog>>

\* contract[name]() rejects while tryFunction awaits the race: caught, false
ProbeReject(n) ==
    /\ pc = "probe" /\ Awaited(n) /\ n \in inflight
    /\ AfterTry(probeIdx, stateVars, discoveredFunctions, inflight \ {n}, timers,
                [probeOutcome EXCEPT ![n] = "revert"])
    /\ UNCHANGED <<txVars, nodeVars, extraVars, chainCode, contractAddress, code, variables, functions, isLoading,
                   error, probeReturned, lateResolved>>

\* the 1000 ms timer fires while tryFunction awaits the race
ProbeTimeout(n) ==
    /\ pc = "probe" /\ Awaited(n) /\ n \in timers
    /\ AfterTry(probeIdx,
                tryFunctionVars(stateVars, n, ProbeTypes[probeIdx], RaceTimer),
                tryFunctionFuncs(discoveredFunctions, n, ProbeTypes[probeIdx], RaceTimer),
                inflight, timers \ {n},
                [probeOutcome EXCEPT ![n] = "timeout"])
    /\ UNCHANGED <<txVars, nodeVars, extraVars, chainCode, contractAddress, code, variables, functions, isLoading,
                   error, probeReturned, lateResolved>>

\* getDonationsCount() resolves first: hasDonationFunction is true
DonationResolve(v) ==
    /\ pc = "donation" /\ Awaited(DonationProbe) /\ DonationProbe \in inflight
    /\ probeReturned' = [probeReturned EXCEPT ![DonationProbe] = v]
    /\ probeOutcome' = [probeOutcome EXCEPT ![DonationProbe] = "success"]
    /\ inflight' = inflight \ {DonationProbe}
    /\ stateVars' = Append(stateVars, ContractVariable("contractType", "Donation Contract", "string", TRUE))
    /\ Publish(stateVars', discoveredFunctions)
    /\ UNCHANGED <<txVars, nodeVars, extraVars, chainCode, contractAddress, code, error, discoveredFunctions,
                   probeIdx, timers, lateResolved, rpcLog>>

\* getDonationsCount() rejects first: .catch(() => false)
DonationReject ==
    /\ pc = "donation" /\ Awaited(DonationProbe) /\ DonationProbe \in inflight
    /\ probeOutcome' = [probeOutcome EXCEPT ![DonationProbe] = "revert"]
    /\ inflight' = inflight \ {DonationProbe}
    /\ Publish(stateVars, discoveredFunctions)
    /\ UNCHANGED <<txVars, nodeVars, extraVars, chainCode, contractAddress, code, error, stateVars,
                   discoveredFunctions, probeIdx, timers, probeReturned,
                   lateResolved, rpcLog>>

\* the 500 ms timer fires first: hasDonationFunction is false
DonationTimeout ==
    /\ pc = "donation" /\ Awaited(DonationProbe) /\ DonationProbe \in timers
    /\ probeOutcome' = [probeOutcome EXCEPT ![DonationProbe] = "timeout"]
    /\ timers' = timers \ {DonationProbe}
    /\ Publish(stateVars, discoveredFunctions)
    /\ UNCHANGED <<txVars, nodeVars, extraVars, chainCode, contractAddress, code, error, stateVars,
                   discoveredFunctions, probeIdx, inflight, probeReturned,
                   lateResolved, rpcLog>>

\* a call that lost its race settles later: Promise.race ignores it
AbandonedCallSettles(n, ok) ==
    /\ n \in inflight
    /\ ~Awaited(n)
    /\ inflight' = inflight \ {n}
    /\ lateResolved' = IF ok THEN lateResolved \cup {n} ELSE lateResolved
    /\ UNCHANGED <<txVars, nodeVars, extraVars, chainCode, contractAddress, code, variables, functions, isLoading,
                   error, pc, stateVars, discoveredFunctions, probeIdx, timers,
                   probeOutcome, probeReturned, rpcLog>>

\* a timer whose race was already decided by the call fires: no effect
StaleTimerFires(n) ==
    /\ n \in timers
    /\ ~Awaited(n)
    /\ timers' = timers \ {n}
    /\ UNCHANGED <<txVars, nodeVars, extraVars, chainCode, contractAddress, code, variables, functions, isLoading,
                   error, pc, stateVars, discoveredFunctions, probeIdx, inflight,
                   probeOutcome, probeReturned, lateResolved, rpcLog>>

DetailsNext ==
    \/ EffectSkip
    \/ FetchInvalidAddress
    \/ FetchStart
    \/ GetCodeEmpty
    \/ GetCodeDeployed
    \/ DetailsRpcReject
    \/ \E b \in Balances : GetBalanceResolve(b)
    \/ \E n \in AllProbes : \E v \in ReturnValues(n) : ProbeResolve(n, v)
    \/ \E n \in AllProbes : ProbeReject(n)
    \/ \E n \in AllProbes : ProbeTimeout(n)
    \/ \E v \in ReturnValues(DonationProbe) : DonationResolve(v)
    \/ DonationReject
    \/ DonationTimeout
    \/ \E n \in AllProbes : \E ok \in BOOLEAN : AbandonedCallSettles(n, ok)
    \/ \E n \in AllProbes : StaleTimerFires(n)

-----------------------------------------------------------------------------
(* The chain the node serves                                               *)

AddrX == "0xf39Fd6e51aad88F6F4ce6aB8827279cffFb92266"
AddrXLower == "0xf39fd6e51aad88f6f4ce6ab8827279cfffb92266"
AddrY == "0x3C44CdDdB6a900fa2b585dd299e03d12FA4293BC"
AddrYLower == "0x3c44cdddb6a900fa2b585dd299e03d12fa4293bc"

\* String.prototype.toLowerCase on the addresses of the model
toLowerCase(a) ==
    CASE a = AddrX -> AddrXLower
      [] a = AddrY -> AddrYLower
      [] OTHER -> a

WindowSize == 100
SmallHeight == 1
MaxHeight == 101
MaxTxs == 2

Heights == (0..SmallHeight) \cup ((WindowSize - 1)..MaxHeight)

Max(a, b) == IF a >= b THEN a ELSE b

\* the blocks of a chain of height h in which the model places transactions
TxBlocks(h) == {0, h - WindowSize - 1, h - WindowSize, h - 1, h} \cap (0..h)

\* sender and receiver of the transactions the model places
Parties ==
    { <<AddrX, AddrY>>, <<AddrY, AddrXLower>>, <<AddrX, Null>>, <<AddrX, AddrX>>,
      <<AddrY, Null>>, <<AddrY, AddrY>> }

TxHash(i) == "0xhash" \o ToString(i)

ChainTx(i, b, p) ==
    [hash |-> TxHash(i), from |-> p[1], to |-> p[2], value |-> OneEther, blockNumber |-> b]

Chains(h) ==
    UNION { { [i \in 1..n |-> ChainTx(i, bs[i], ps[i])] :
                bs \in { f \in [1..n -> TxBlocks(h)] : \A i \in 1..n, j \in 1..n : i <= j => f[i] <= f[j] },
                ps \in [1..n -> Parties] }
            : n \in 0..MaxTxs }

BlockTimestamp(b) == 1700000000 + 12 * b

\* what getBlock(b) and getBlockWithTransactions(b) answer
ChainBlock(b) ==
    [number |-> b, timestamp |-> BlockTimestamp(b),
     transactions |-> SelectSeq(chainTxs, LAMBDA tx : tx.blockNumber = b)]

-----------------------------------------------------------------------------
(* TransactionModal.fetchTransactions                                      *)

TxFailure == "Failed to load transactions. Make sure your Hardhat node is running."

\* the filter predicate without the case folding
txMatches_CaseSensitive(tx, addr) ==
    \/ tx.from = addr
    \/ tx.to # Null /\ tx.to = addr

\* the filter predicate of fetchTransactions
txMatches(tx, addr) ==
    \/ toLowerCase(tx.from) = toLowerCase(addr)
    \/ tx.to # Null /\ toLowerCase(tx.to) = toLowerCase(addr)

RECURSIVE filterTxs(_, _)
\* blocks.flatMap(block => block.transactions.filter(...))
filterTxs(bs, addr) ==
    IF bs = <<>> THEN <<>>
    ELSE SelectSeq(Head(bs).transactions, LAMBDA tx : txMatches(tx, addr))
            \o filterTxs(Tail(bs), addr)

\* one element of formattedTxs, with the block getBlock answered
formatTx(tx) ==
    [hash |-> tx.hash, to |-> tx.to, from |-> tx.from,
     value |-> formatEther(tx.value),
     timestamp |-> ChainBlock(tx.blockNumber).timestamp,
     blockNumber |-> tx.blockNumber]

\* allTxs.map(async tx => ...) joined by Promise.all
formatTxs(txs) == [i \in 1..Len(txs) |-> formatTx(txs[i])]

\* the comparator (a, b) => a.blockNumber - b.blockNumber
compare_Ascending(a, b) == a.blockNumber - b.blockNumber

\* the comparator (a, b) => b.blockNumber - a.blockNumber
compare(a, b) == b.blockNumber - a.blockNumber

RECURSIVE InsertSorted(_, _)
\* e goes behind every element that does not compare greater than it
InsertSorted(e, seq) ==
    IF seq = <<>> THEN <<e>>
    ELSE IF compare(Head(seq), e) <= 0
         THEN <<Head(seq)>> \o InsertSorted(e, Tail(seq))
         ELSE <<e>> \o seq

RECURSIVE sort(_)
\* Array.prototype.sort with the comparator above (stable)
sort(seq) ==
    IF seq = <<>> THEN <<>>
    ELSE InsertSorted(seq[Len(seq)], sort(SubSeq(seq, 1, Len(seq) - 1)))

\* the endpoint written into fetchTransactions
TxProviderUrl == "http://127.0.0.1:8545"

\* a request of the scan, sent through its provider
TxRequest(method, arg) == [method |-> method, arg |-> arg, url |-> TxProviderUrl]

\* the modal is not mounted
TxIdle ==
    /\ chainTxs = <<>>
    /\ address = AddrX
    /\ transactions = <<>>
    /\ txIsLoading = TRUE
    /\ txError = Null
    /\ txPc = "unmounted"
    /\ fromBlock = 0
    /\ blocks = <<>>
    /\ allTxs = <<>>
    /\ txRequests = {}

TxInit ==
    /\ chainHeight \in Heights
    /\ chainTxs \in Chains(chainHeight)
    /\ address \in {AddrX, AddrXLower}
    /\ transactions = <<>>
    /\ txIsLoading = TRUE
    /\ txError = Null
    /\ txPc = "effect"
    /\ fromBlock = 0
    /\ blocks = <<>>
    /\ allTxs = <<>>
    /\ txRequests = {}

\* useEffect on [address]: fetchTransactions up to await getBlockNumber
TxFetchStart ==
    /\ txPc = "effect"
    /\ txRequests' = txRequests \cup {TxRequest("getBlockNumber", 0)}
    /\ txPc' = "getBlockNumber"
    /\ UNCHANGED <<detailsVars, nodeVars, extraVars, chainHeight, chainTxs, address, transactions,
                   txIsLoading, txError, fromBlock, blocks, allTxs>>

\* getBlockNumber resolves: the window is computed and one
\* getBlockWithTransactions per block of the window is issued
TxBlockNumberResolve ==
    /\ txPc = "getBlockNumber"
    /\ fromBlock' = Max(0, chainHeight - WindowSize)
    /\ txRequests' = txRequests \cup
           { TxRequest("getBlockWithTransactions", fromBlock' + i) :
                i \in 0..(chainHeight - fromBlock') }
    /\ txPc' = "blocks"
    /\ UNCHANGED <<detailsVars, nodeVars, extraVars, chainHeight, chainTxs, address, transactions,
                   txIsLoading, txError, blocks, allTxs>>

\* Promise.all of the block requests resolves: the transactions are filtered
\* and one getBlock per matching transaction is issued
TxBlocksResolve ==
    /\ txPc = "blocks"
    /\ blocks' = [i \in 1..(chainHeight - fromBlock + 1) |-> ChainBlock(fromBlock + i - 1)]
    /\ allTxs' = filterTxs(blocks', address)
    /\ txRequests' = txRequests \cup
           { TxRequest("getBlock", allTxs'[i].blockNumber) : i \in 1..Len(allTxs') }
    /\ txPc' = "format"
    /\ UNCHANGED <<detailsVars, nodeVars, extraVars, chainHeight, chainTxs, address, transactions,
                   txIsLoading, txError, fromBlock>>

\* Promise.all of the getBlock requests resolves: format, sort, publish;
\* finally setIsLoading(false)
TxFormatResolve ==
    /\ txPc = "format"
    /\ transactions' = sort(formatTxs(allTxs))
    /\ txIsLoading' = FALSE
    /\ txPc' = "done"
    /\ UNCHANGED <<detailsVars, nodeVars, extraVars, chainHeight, chainTxs, address, txError,
                   fromBlock, blocks, allTxs, txRequests>>

\* a catch block that keeps what was matched so far
TxRpcReject_KeepsPartial ==
    /\ \/ txPc \in {"getBlockNumber", "blocks"}
       \/ txPc = "format" /\ allTxs # <<>>
    /\ transactions' = formatTxs(allTxs)
    /\ txError' = TxFailure
    /\ txIsLoading' = FALSE
    /\ txPc' = "done"
    /\ UNCHANGED <<detailsVars, nodeVars, extraVars, chainHeight, chainTxs, address,
                   fromBlock, blocks, allTxs, txRequests>>

\* one of the awaited requests rejects: catch, then finally
TxRpcReject ==
    /\ \/ txPc \in {"getBlockNumber", "blocks"}
       \/ txPc = "format" /\ allTxs # <<>>
    /\ txError' = TxFailure
    /\ txIsLoading' = FALSE
    /\ txPc' = "done"
    /\ UNCHANGED <<detailsVars, nodeVars, extraVars, chainHeight, chainTxs, address, transactions,
                   fromBlock, blocks, allTxs, txRequests>>

TxNext ==
    \/ TxFetchStart
    \/ TxBlockNumberResolve
    \/ TxBlocksResolve
    \/ TxFormatResolve
    \/ TxRpcReject

-----------------------------------------------------------------------------
(* useHardhatNode.connectToNode                                            *)

MaxAccounts == 2

HexDigits == <<"0","1","2","3","4","5","6","7","8","9","a","b","c","d","e","f">>
HexByte(n) == HexDigits[(n \div 16) + 1] \o HexDigits[(n % 16) + 1]

\* the number of accounts with a well-known key
KnownKeys == 20

AddrThird == "0x90F79bf6EB2c4f870365E785982E1f101E93b906"

\* the addresses a node hands out, in its order
HardhatAddresses ==
    [i \in 1..(KnownKeys + 1) |->
        CASE i = 1 -> AddrX
          [] i = 2 -> AddrPlain
          [] i = 3 -> AddrY
          [] i = 4 -> AddrThird
          [] OTHER -> "0x00000000000000000000000000000000000000" \o HexByte(i)]

\* how many accounts the modelled node manages
AccountCounts == (0..MaxAccounts) \cup {KnownKeys, KnownKeys + 1}

AccountAddresses == {HardhatAddresses[i] : i \in 1..Len(HardhatAddresses)}

\* account.substring(0, 8)
substring8(a) ==
    CASE a = AddrX     -> "0xf39Fd6"
      [] a = AddrPlain -> "0x709979"
      [] a = AddrY     -> "0x3C44Cd"
      [] a = AddrThird -> "0x90F79b"
      [] OTHER         -> "0x000000"

BaseKeyHigh == "0xac0974bec39a17e36ba4a6b4d238ff944bacb478cbed5efcae784d7bf4f2ff"
BaseKeyLow == 128

\* hexlify(BigNumber.from('0xac09..ff80').add(index)), index below 128
privateKey(index) == BaseKeyHigh \o HexByte(BaseKeyLow + index)

RECURSIVE IncDigits(_)
\* the decimal digits of the number plus one
IncDigits(d) ==
    IF d = <<>> THEN <<1>>
    ELSE IF d[Len(d)] < 9
         THEN SubSeq(d, 1, Len(d) - 1) \o <<d[Len(d)] + 1>>
         ELSE IncDigits(SubSeq(d, 1, Len(d) - 1)) \o <<0>>

DisplayDecimals == 4

\* parseFloat(formatEther(wei)).toFixed(4): the ether amount rounded to four
\* decimals
RECURSIVE DigitsToNat(_)
DigitsToNat(d) ==
    IF d = <<>> THEN 0 ELSE 10 * DigitsToNat(SubSeq(d, 1, Len(d) - 1)) + d[Len(d)]

\* An amount exactly halfway between two 4-decimal values is not a binary
\* double: parseFloat yields the nearest double and toFixed rounds that.
\* The halves (k + 1/2) * 10^-4 whose double lies above them, and those
\* whose double lies below, for k = 0..24.
TieAbove == {0, 2, 5, 7, 12, 13, 17, 18, 20, 21, 23}
TieBelow == {1, 3, 4, 6, 8, 9, 10, 11, 14, 15, 16, 19, 22, 24}

\* does toFixed(4) round the dropped digits `rest` away from `kept`
roundsUp(kept, rest) ==
    LET zeroAfterFirst == \A i \in 2..Len(rest) : rest[i] = 0
    IN  CASE rest[1] > 5 -> TRUE
          [] rest[1] < 5 -> FALSE
          [] rest[1] = 5 /\ ~zeroAfterFirst -> TRUE
          [] rest[1] = 5 /\ zeroAfterFirst /\ DigitsToNat(kept) \in TieAbove -> TRUE
          [] rest[1] = 5 /\ zeroAfterFirst /\ DigitsToNat(kept) \in TieBelow -> FALSE

\* toFixed(4) that cuts the digits after the fourth decimal
toFixed4_Truncating(d) ==
    LET p == PadLeft(d, EtherDecimals + 1)
        r == SubSeq(p, 1, Len(p) - EtherDecimals + DisplayDecimals)
    IN  DigitsToStr(SubSeq(r, 1, Len(r) - DisplayDecimals)) \o "." \o
        DigitsToStr(SubSeq(r, Len(r) - DisplayDecimals + 1, Len(r)))

toFixed4(d) ==
    LET p == PadLeft(d, EtherDecimals + 1)
        kept == SubSeq(p, 1, Len(p) - EtherDecimals + DisplayDecimals)
        rest == SubSeq(p, Len(p) - EtherDecimals + DisplayDecimals + 1, Len(p))
        r == IF roundsUp(kept, rest) THEN IncDigits(kept) ELSE kept
    IN  DigitsToStr(SubSeq(r, 1, Len(r) - DisplayDecimals)) \o "." \o
        DigitsToStr(SubSeq(r, Len(r) - DisplayDecimals + 1, Len(r)))

\* AccountInfo whose key is taken one position further
AccountInfo_KeyOffByOne(addr, index) ==
    [address |-> addr, privateKey |-> privateKey(index + 1),
     balance |-> toFixed4(nodeBalance[addr])]

AccountInfo(addr, index) ==
    [address |-> addr, privateKey |-> privateKey(index),
     balance |-> toFixed4(nodeBalance[addr])]

ContractInfo(name, addr) == [name |-> name, address |-> addr]

manualContracts ==
    << ContractInfo("Donation Contract", "0x9fE46736679d2D9a65F0992F2272dE9f3c7fa6e0") >>

ConnectFailure ==
    "Failed to connect to Hardhat node. Make sure it's running at http://127.0.0.1:8545"

DefaultChainId == 31337

\* the result of parseInt on a REACT_APP_CHAIN_ID without leading digits,
\* as a number that no chain uses
NaN == -2

\* the hook is not mounted
NodeIdle ==
    /\ configChainId = DefaultChainId
    /\ networkChainId = DefaultChainId
    /\ nodeAccounts = <<>>
    /\ nodeBalance = [a \in AccountAddresses |-> <<0>>]
    /\ accounts = <<>>
    /\ contracts = <<>>
    /\ chainId = -1
    /\ blockNumber = 0
    /\ nodeIsLoading = TRUE
    /\ nodeError = Null
    /\ nodePc = "unmounted"
    /\ listedAccounts = <<>>
    /\ nodeRequests = {}

\* the first accounts of the node, whose balance and code the model varies
VariedAccounts(n) == {HardhatAddresses[i] : i \in 1..(IF n < MaxAccounts THEN n ELSE MaxAccounts)}

\* the accounts, balances and code of the node the application talks to
NodeState ==
    \E n \in AccountCounts :
        /\ nodeAccounts = SubSeq(HardhatAddresses, 1, n)
        /\ nodeBalance \in
              { [a \in AccountAddresses |->
                    IF a \in VariedAccounts(n) THEN f[a]
                    ELSE IF a \in {HardhatAddresses[i] : i \in 1..n} THEN OneEther ELSE <<0>>] :
                  f \in [VariedAccounts(n) -> Balances] }
        /\ chainCode \in
              { [a \in AccountAddresses |->
                    IF a \in VariedAccounts(n) THEN f[a] ELSE EmptyCode] :
                  f \in [VariedAccounts(n) -> {EmptyCode, SomeCode}] }

NodeInit ==
    /\ configChainId \in {DefaultChainId, 0, NaN}
    /\ networkChainId \in {DefaultChainId, 1337}
    /\ NodeState
    /\ chainHeight \in {0, 7}
    /\ accounts = <<>>
    /\ contracts = <<>>
    /\ chainId = -1
    /\ blockNumber = 0
    /\ nodeIsLoading = TRUE
    /\ nodeError = Null
    /\ nodePc = "effect"
    /\ listedAccounts = <<>>
    /\ nodeRequests = {}

NodeRequest(method, arg) == [method |-> method, arg |-> arg]

\* useEffect([]): connectToNode up to await getNetwork
ConnectStart ==
    /\ nodePc = "effect"
    /\ nodeRequests' = nodeRequests \cup {NodeRequest("getNetwork", "")}
    /\ nodePc' = "getNetwork"
    /\ UNCHANGED <<detailsVars, txVars, extraVars, configChainId, networkChainId,
                   nodeAccounts, nodeBalance, accounts, contracts, chainId,
                   blockNumber, nodeIsLoading, nodeError, listedAccounts>>

\* the node's id taken whenever it is truthy, the configured one otherwise
effectiveChainId_NetworkFirst(configured, reported) ==
    IF reported # 0 /\ reported # NaN THEN reported ELSE configured

\* config.chainId || network.chainId
effectiveChainId(configured, reported) ==
    IF configured # 0 /\ configured # NaN THEN configured ELSE reported

\* getNetwork resolves: setChainId, then getBlockNumber is issued
NetworkResolve ==
    /\ nodePc = "getNetwork"
    /\ chainId' = effectiveChainId(configChainId, networkChainId)
    /\ nodeRequests' = nodeRequests \cup {NodeRequest("getBlockNumber", "")}
    /\ nodePc' = "getBlockNumber"
    /\ UNCHANGED <<detailsVars, txVars, extraVars, configChainId, networkChainId,
                   nodeAccounts, nodeBalance, accounts, contracts,
                   blockNumber, nodeIsLoading, nodeError, listedAccounts>>

\* getBlockNumber resolves: setBlockNumber, then listAccounts is issued
BlockNumberResolve ==
    /\ nodePc = "getBlockNumber"
    /\ blockNumber' = chainHeight
    /\ nodeRequests' = nodeRequests \cup {NodeRequest("listAccounts", "")}
    /\ nodePc' = "listAccounts"
    /\ UNCHANGED <<detailsVars, txVars, extraVars, configChainId, networkChainId,
                   nodeAccounts, nodeBalance, accounts, contracts, chainId,
                   nodeIsLoading, nodeError, listedAccounts>>

\* listAccounts resolves: one getBalance per account is issued
ListAccountsResolve ==
    /\ nodePc = "listAccounts"
    /\ listedAccounts' = nodeAccounts
    /\ nodeRequests' = nodeRequests \cup
           { NodeRequest("getBalance", nodeAccounts[i]) : i \in 1..Len(nodeAccounts) }
    /\ nodePc' = "balances"
    /\ UNCHANGED <<detailsVars, txVars, extraVars, configChainId, networkChainId,
                   nodeAccounts, nodeBalance, accounts, contracts, chainId,
                   blockNumber, nodeIsLoading, nodeError>>

\* Promise.all of the balances resolves: setAccounts, then one getCode per
\* account is issued
BalancesResolve ==
    /\ nodePc = "balances"
    /\ accounts' = [i \in 1..Len(listedAccounts) |-> AccountInfo(listedAccounts[i], i - 1)]
    /\ nodeRequests' = nodeRequests \cup
           { NodeRequest("getCode", listedAccounts[i]) : i \in 1..Len(listedAccounts) }
    /\ nodePc' = "codes"
    /\ UNCHANGED <<detailsVars, txVars, extraVars, configChainId, networkChainId,
                   nodeAccounts, nodeBalance, contracts, chainId,
                   blockNumber, nodeIsLoading, nodeError, listedAccounts>>

\* a code check with the comparison turned around
contractCheck_Inverted(account) ==
    IF chainCode[account] = EmptyCode
    THEN <<ContractInfo("Contract at " \o substring8(account) \o "...", account)>>
    ELSE <<>>

\* one element of contractChecks
contractCheck(account) ==
    IF chainCode[account] # EmptyCode
    THEN <<ContractInfo("Contract at " \o substring8(account) \o "...", account)>>
    ELSE <<>>

RECURSIVE foundContracts(_)
\* (await Promise.all(contractChecks)).filter(contract => contract !== null)
foundContracts(accs) ==
    IF accs = <<>> THEN <<>>
    ELSE contractCheck(Head(accs)) \o foundContracts(Tail(accs))

\* Promise.all of the code checks resolves: found contracts, then the manual
\* entry, then setIsLoading(false)
CodesResolve ==
    /\ nodePc = "codes"
    /\ contracts' = foundContracts(listedAccounts) \o manualContracts
    /\ nodeIsLoading' = FALSE
    /\ nodePc' = "done"
    /\ UNCHANGED <<detailsVars, txVars, extraVars, configChainId, networkChainId,
                   nodeAccounts, nodeBalance, accounts, chainId,
                   blockNumber, nodeError, listedAccounts, nodeRequests>>

\* some request is awaited at this position
NodeAwaitsRequest ==
    \/ nodePc \in {"getNetwork", "getBlockNumber", "listAccounts"}
    \/ nodePc \in {"balances", "codes"} /\ listedAccounts # <<>>

\* a catch block that forgets setIsLoading(false)
ConnectRpcReject_StillLoading ==
    /\ NodeAwaitsRequest
    /\ nodeError' = ConnectFailure
    /\ nodePc' = "done"
    /\ UNCHANGED <<detailsVars, txVars, extraVars, configChainId, networkChainId,
                   nodeAccounts, nodeBalance, accounts, contracts, chainId,
                   blockNumber, nodeIsLoading, listedAccounts, nodeRequests>>

\* an awaited request rejects: the catch block
ConnectRpcReject ==
    /\ NodeAwaitsRequest
    /\ nodeError' = ConnectFailure
    /\ nodeIsLoading' = FALSE
    /\ nodePc' = "done"
    /\ UNCHANGED <<detailsVars, txVars, extraVars, configChainId, networkChainId,
                   nodeAccounts, nodeBalance, accounts, contracts, chainId,
                   blockNumber, listedAccounts, nodeRequests>>

\* what App renders from the connector's state
AppView ==
    IF nodeIsLoading THEN "spinner"
    ELSE IF nodeError # Null THEN "error" ELSE "NodeInfo"

NodeNext ==
    \/ ConnectStart
    \/ NetworkResolve
    \/ BlockNumberResolve
    \/ ListAccountsResolve
    \/ BalancesResolve
    \/ CodesResolve
    \/ ConnectRpcReject

-----------------------------------------------------------------------------
(* Balance formatting: parseFloat(ethers.utils.formatEther(balance))       *)
(* .toFixed(4), applied to one balance                                     *)

MaxUnits == 12

\* what lies below the fourth decimal, as 14 digits of wei: nothing, one
\* wei, just below / exactly / just above half a unit, 0.6 unit, all nines
Tails ==
    { <<0,0,0,0,0,0,0,0,0,0,0,0,0,0>>, <<0,0,0,0,0,0,0,0,0,0,0,0,0,1>>,
      <<4,9,9,9,9,9,9,9,9,9,9,9,9,9>>, <<5,0,0,0,0,0,0,0,0,0,0,0,0,0>>,
      <<5,0,0,0,0,0,0,0,0,0,0,0,0,1>>, <<6,0,0,0,0,0,0,0,0,0,0,0,0,0>>,
      <<9,9,9,9,9,9,9,9,9,9,9,9,9,9>> }

RECURSIVE NatToDigits(_)
NatToDigits(n) == IF n < 10 THEN <<n>> ELSE NatToDigits(n \div 10) \o <<n % 10>>

RECURSIVE StripLeadingZeros(_)
StripLeadingZeros(d) ==
    IF Len(d) > 1 /\ d[1] = 0 THEN StripLeadingZeros(Tail(d)) ELSE d

\* the balances formatted: u units of 10^-4 ether plus a tail, and 1 ether
WeiAmounts ==
    { StripLeadingZeros(NatToDigits(u) \o t) : u \in 0..MaxUnits, t \in Tails }
        \cup {OneEther}

FmtIdle == fmtWei = <<0>> /\ fmtShown = Null

-----------------------------------------------------------------------------
(* CopyButton: time advances in steps of TickMs; a timer that is due fires  *)
(* before time advances further                                            *)

MaxClicks == 3

CopyTimeout == 2000

TickMs == 500

\* sinceWrite before the first successful write
NoWrite == -1

CopyIdle ==
    /\ copied = FALSE /\ copyPending = 0 /\ copyTimers = <<>>
    /\ copyClicks = 0 /\ sinceWrite = NoWrite

CopyInit == CopyIdle

\* onClick={handleCopy}: the handler runs up to its await
Click ==
    /\ copyClicks < MaxClicks
    /\ copyClicks' = copyClicks + 1
    /\ copyPending' = copyPending + 1
    /\ UNCHANGED <<copied, copyTimers, sinceWrite>>
    /\ UNCHANGED <<detailsVars, txVars, nodeVars, fmtVars, infoVars, viewVars, rpcUrl>>

\* writeText resolved: setCopied(true); setTimeout(..., 2000)
WriteResolve ==
    /\ copyPending > 0
    /\ copyPending' = copyPending - 1
    /\ copied' = TRUE
    /\ copyTimers' = Append(copyTimers, CopyTimeout)
    /\ sinceWrite' = 0
    /\ UNCHANGED copyClicks
    /\ UNCHANGED <<detailsVars, txVars, nodeVars, fmtVars, infoVars, viewVars, rpcUrl>>

\* writeText rejected: console.error only
WriteReject ==
    /\ copyPending > 0
    /\ copyPending' = copyPending - 1
    /\ UNCHANGED <<copied, copyTimers, copyClicks, sinceWrite>>
    /\ UNCHANGED <<detailsVars, txVars, nodeVars, fmtVars, infoVars, viewVars, rpcUrl>>

\* () => setCopied(false), run when its timer is due
CopyTimerFires ==
    /\ copyTimers # <<>> /\ Head(copyTimers) = 0
    /\ copied' = FALSE
    /\ copyTimers' = Tail(copyTimers)
    /\ UNCHANGED <<copyPending, copyClicks, sinceWrite>>
    /\ UNCHANGED <<detailsVars, txVars, nodeVars, fmtVars, infoVars, viewVars, rpcUrl>>

\* TickMs pass
CopyTick ==
    /\ copyTimers # <<>> /\ Head(copyTimers) > 0
    /\ copyTimers' = [i \in 1..Len(copyTimers) |-> copyTimers[i] - TickMs]
    /\ sinceWrite' = sinceWrite + TickMs
    /\ UNCHANGED <<copied, copyPending, copyClicks>>
    /\ UNCHANGED <<detailsVars, txVars, nodeVars, fmtVars, infoVars, viewVars, rpcUrl>>

CopyNext ==
    \/ Click
    \/ WriteResolve
    \/ WriteReject
    \/ CopyTimerFires
    \/ CopyTick

-----------------------------------------------------------------------------
(* NodeInfo: the balance load of the view and what its tabs render         *)

MaxInfoAccounts == 3

TabTypes == {"signer", "accounts", "contracts"}

\* HARDHAT_KEYS[index] || 'N/A'
hardhatKey(index) == IF index < KnownKeys THEN privateKey(index) ELSE "N/A"

\* the object returned by the callback of accounts.map for position i (from 1)
detailOf(i) ==
    [address |-> infoAccounts[i], privateKey |-> hardhatKey(i - 1),
     balance |-> toFixed4(infoBalance[infoAccounts[i]])]

InfoIdle ==
    /\ infoAccounts = <<>>
    /\ infoBalance = [a \in AccountAddresses |-> <<0>>]
    /\ accountDetails = <<>>
    /\ isLoadingBalances = TRUE
    /\ activeTab = "signer"
    /\ infoPc = "unmounted"
    /\ infoArrived = <<>>
    /\ infoFailed = FALSE

\* NodeInfo is mounted with the account addresses of the connector
InfoInit ==
    /\ \E n \in 0..MaxInfoAccounts :
          /\ infoAccounts = SubSeq(HardhatAddresses, 1, n)
          /\ infoBalance \in
                { [a \in AccountAddresses |->
                      IF a \in {HardhatAddresses[i] : i \in 1..n} THEN f[a] ELSE <<0>>] :
                    f \in [{HardhatAddresses[i] : i \in 1..n} -> Balances] }
    /\ accountDetails = <<>>
    /\ isLoadingBalances = TRUE
    /\ activeTab = "signer"
    /\ infoPc = "mounted"
    /\ infoArrived = <<>>
    /\ infoFailed = FALSE

\* the effect runs: accounts.map issues one getBalance per account
FetchAccountDetails ==
    /\ infoPc = "mounted"
    /\ infoPc' = "balances"
    /\ UNCHANGED <<infoAccounts, infoBalance, accountDetails, isLoadingBalances,
                   activeTab, infoArrived, infoFailed>>
    /\ UNCHANGED <<detailsVars, txVars, nodeVars, fmtVars, copyVars, viewVars, rpcUrl>>

\* one getBalance resolves; the requests are answered in any order
BalanceArrives(i) ==
    /\ infoPc = "balances"
    /\ i \in 1..Len(infoAccounts)
    /\ \A k \in 1..Len(infoArrived) : infoArrived[k] # i
    /\ infoArrived' = Append(infoArrived, i)
    /\ UNCHANGED <<infoAccounts, infoBalance, accountDetails, isLoadingBalances,
                   activeTab, infoPc, infoFailed>>
    /\ UNCHANGED <<detailsVars, txVars, nodeVars, fmtVars, copyVars, viewVars, rpcUrl>>

\* Promise.all delivering the results in order of arrival
InfoJoin_ArrivalOrder ==
    /\ infoPc = "balances"
    /\ Len(infoArrived) = Len(infoAccounts)
    /\ accountDetails' = [k \in 1..Len(infoAccounts) |-> detailOf(infoArrived[k])]
    /\ isLoadingBalances' = FALSE
    /\ infoPc' = "done"
    /\ UNCHANGED <<infoAccounts, infoBalance, activeTab, infoArrived, infoFailed>>
    /\ UNCHANGED <<detailsVars, txVars, nodeVars, fmtVars, copyVars, viewVars, rpcUrl>>

\* Promise.all resolves: setAccountDetails(details); finally
\* setIsLoadingBalances(false)
InfoJoin ==
    /\ infoPc = "balances"
    /\ Len(infoArrived) = Len(infoAccounts)
    /\ accountDetails' = [i \in 1..Len(infoAccounts) |-> detailOf(i)]
    /\ isLoadingBalances' = FALSE
    /\ infoPc' = "done"
    /\ UNCHANGED <<infoAccounts, infoBalance, activeTab, infoArrived, infoFailed>>
    /\ UNCHANGED <<detailsVars, txVars, nodeVars, fmtVars, copyVars, viewVars, rpcUrl>>

\* one getBalance rejects: catch logs; finally setIsLoadingBalances(false)
InfoReject ==
    /\ infoPc = "balances"
    /\ Len(infoArrived) < Len(infoAccounts)
    /\ isLoadingBalances' = FALSE
    /\ infoFailed' = TRUE
    /\ infoPc' = "done"
    /\ UNCHANGED <<infoAccounts, infoBalance, accountDetails, activeTab, infoArrived>>
    /\ UNCHANGED <<detailsVars, txVars, nodeVars, fmtVars, copyVars, viewVars, rpcUrl>>

\* onClick={() => setActiveTab(tab)}
SetActiveTab(tab) ==
    /\ infoPc # "unmounted"
    /\ tab # activeTab
    /\ activeTab' = tab
    /\ UNCHANGED <<infoAccounts, infoBalance, accountDetails, isLoadingBalances,
                   infoPc, infoArrived, infoFailed>>
    /\ UNCHANGED <<detailsVars, txVars, nodeVars, fmtVars, copyVars, viewVars, rpcUrl>>

\* the three values a card passes to renderAccountDetail
Card(detail) ==
    [address |-> detail.address, privateKey |-> detail.privateKey,
     balance |-> detail.balance \o " ETH"]

\* case 'signer': signerDetails = accountDetails[0]
SignerTab ==
    IF accountDetails = <<>> THEN <<>> ELSE <<Card(accountDetails[1])>>

\* the cards of otherAccounts.map, a missing detail rendering nothing
RECURSIVE otherCards(_)
otherCards(index) ==
    IF index >= Len(infoAccounts) - 1 THEN <<>>
    ELSE (IF index + 2 <= Len(accountDetails)
          THEN <<Card(accountDetails[index + 2])>> ELSE <<>>) \o otherCards(index + 1)

\* case 'accounts': otherAccounts = accounts.slice(1), detail = accountDetails[index + 1]
AccountsTab == otherCards(0)

\* renderTabContent: the cards on display, or the spinner
renderTabContent ==
    IF isLoadingBalances THEN "spinner"
    ELSE CASE activeTab = "signer" -> SignerTab
           [] activeTab = "accounts" -> AccountsTab
           [] activeTab = "contracts" -> contracts

InfoNext ==
    \/ FetchAccountDetails
    \/ \E i \in 1..MaxInfoAccounts : BalanceArrives(i)
    \/ InfoJoin
    \/ InfoReject
    \/ \E tab \in TabTypes : SetActiveTab(tab)

-----------------------------------------------------------------------------
(* ContractDetailsModal across changes of contractAddress: every           *)
(* introspection is one request in flight that ends in the publishing code *)
(* or in the catch block; the address variable of a published list names   *)
(* the address it was computed for                                         *)

MaxChanges == 2

ViewIdle ==
    /\ viewAddress = ""
    /\ viewLoading = TRUE
    /\ shownOf = Null
    /\ errorOf = Null
    /\ effectDue = FALSE
    /\ fetches = {}
    /\ propChanges = 0

\* the modal is mounted: useState initial values, the effect is scheduled
ViewInit ==
    /\ viewAddress \in ContractAddressProps
    /\ viewLoading = TRUE
    /\ shownOf = Null
    /\ errorOf = Null
    /\ effectDue = TRUE
    /\ fetches = {}
    /\ propChanges = 0

\* the parent renders the mounted modal with another contractAddress
ContractAddressChanges(a) ==
    /\ propChanges < MaxChanges
    /\ a # viewAddress
    /\ viewAddress' = a
    /\ effectDue' = TRUE
    /\ propChanges' = propChanges + 1
    /\ UNCHANGED <<viewLoading, shownOf, errorOf, fetches>>
    /\ UNCHANGED <<detailsVars, txVars, nodeVars, fmtVars, copyVars, infoVars, rpcUrl>>

\* the effect body up to the first await of fetchContractDetails
ViewEffect ==
    /\ effectDue
    /\ effectDue' = FALSE
    /\ IF isBlank(viewAddress)
       THEN /\ viewLoading' = FALSE
            /\ UNCHANGED <<errorOf, fetches>>
       ELSE IF ~isAddress(viewAddress)
            THEN /\ viewLoading' = FALSE
                 /\ errorOf' = viewAddress
                 /\ UNCHANGED fetches
            ELSE /\ viewLoading' = TRUE
                 /\ errorOf' = Null
                 /\ fetches' = fetches \cup {viewAddress}
    /\ UNCHANGED <<viewAddress, shownOf, propChanges>>
    /\ UNCHANGED <<detailsVars, txVars, nodeVars, fmtVars, copyVars, infoVars, rpcUrl>>

\* an introspection reaches setVariables .. setIsLoading(false)
ViewPublish(a) ==
    /\ a \in fetches
    /\ chainCode[a] # EmptyCode
    /\ fetches' = fetches \ {a}
    /\ shownOf' = a
    /\ viewLoading' = FALSE
    /\ UNCHANGED <<viewAddress, errorOf, effectDue, propChanges>>
    /\ UNCHANGED <<detailsVars, txVars, nodeVars, fmtVars, copyVars, infoVars, rpcUrl>>

\* an introspection reaches its catch block (no code, or a failed request)
ViewCatch(a) ==
    /\ a \in fetches
    /\ fetches' = fetches \ {a}
    /\ errorOf' = a
    /\ viewLoading' = FALSE
    /\ UNCHANGED <<viewAddress, shownOf, effectDue, propChanges>>
    /\ UNCHANGED <<detailsVars, txVars, nodeVars, fmtVars, copyVars, infoVars, rpcUrl>>

ViewNext ==
    \/ \E a \in ContractAddressProps : ContractAddressChanges(a)
    \/ ViewEffect
    \/ \E a \in ValidAddresses : ViewPublish(a)
    \/ \E a \in ValidAddresses : ViewCatch(a)

ExtraIdle == FmtIdle /\ CopyIdle /\ InfoIdle /\ ViewIdle /\ ConfigDefault

FmtInit == fmtWei \in WeiAmounts /\ fmtShown = Null

\* balance: parseFloat(balanceInEth).toFixed(4)
FormatBalance ==
    /\ fmtShown = Null
    /\ fmtShown' = toFixed4(fmtWei)
    /\ UNCHANGED <<detailsVars, txVars, nodeVars, fmtWei, copyVars, infoVars, viewVars, rpcUrl>>

FmtNext == FormatBalance

-----------------------------------------------------------------------------
(* Specifications                                                          *)

\* the contract-details modal is opened; nothing else runs
InitDetails == DetailsInit /\ chainHeight = 0 /\ TxIdle /\ NodeIdle /\ ExtraIdle

SpecDetails == InitDetails /\ [][DetailsNext]_vars

\* a timer that was set fires unless its race is decided before: the event
\* loop runs the callback of every setTimeout; the node may answer or not
SpecDetailsFair ==
    /\ InitDetails /\ [][DetailsNext]_vars
    /\ WF_vars(\E n \in AllProbes : ProbeTimeout(n))
    /\ WF_vars(DonationTimeout)

\* the transaction modal is opened; nothing else runs
InitTx ==
    /\ TxInit /\ chainCode = [a \in ValidAddresses |-> EmptyCode]
    /\ DetailsIdle /\ NodeIdle
    /\ FmtIdle /\ CopyIdle /\ InfoIdle /\ ViewIdle
    /\ rpcUrl \in RpcUrls

SpecTx == InitTx /\ [][TxNext]_vars

\* the application mounts the hook; no modal is open
InitNode == NodeInit /\ TxIdle /\ DetailsIdle /\ ExtraIdle

SpecNode == InitNode /\ [][NodeNext]_vars

\* no modal is open and the connector does not run
CoreIdle ==
    /\ chainCode = [a \in ValidAddresses |-> EmptyCode] /\ chainHeight = 0
    /\ DetailsIdle /\ TxIdle /\ NodeIdle /\ ConfigDefault

\* one balance is formatted; nothing else runs
InitFormat == FmtInit /\ CoreIdle /\ CopyIdle /\ InfoIdle /\ ViewIdle

SpecFormat == InitFormat /\ [][FmtNext]_vars

\* one copy button is used; nothing else runs
InitCopy == CopyInit /\ CoreIdle /\ FmtIdle /\ InfoIdle /\ ViewIdle

SpecCopy == InitCopy /\ [][CopyNext]_vars

\* the account view is mounted; no modal is open
InitInfo == InfoInit /\ CoreIdle /\ FmtIdle /\ CopyIdle /\ ViewIdle

SpecInfo == InitInfo /\ [][InfoNext]_vars

\* the contract-details modal stays mounted while its prop changes
InitView ==
    /\ ViewInit
    /\ chainCode = [a \in ValidAddresses |-> IF a = AddrToken THEN SomeCode ELSE EmptyCode]
    /\ chainHeight = 0
    /\ DetailsIdle /\ TxIdle /\ NodeIdle /\ FmtIdle /\ CopyIdle /\ InfoIdle
    /\ ConfigDefault

SpecView == InitView /\ [][ViewNext]_vars

-----------------------------------------------------------------------------
(* Properties of the contract introspection                                *)

Range(seq) == {seq[i] : i \in 1..Len(seq)}
ValueOf(seq, n) == {v.value : v \in {x \in Range(seq) : x.name = n}}

\* C1: a tryFunction probe decided by its 1-second timer is treated like a
\* reverting one: it leaves no entry in the variables list and none in the
\* functions list (local or published) and no error is set, also when the
\* abandoned call resolves afterwards.
C1_TimeoutLikeRevert ==
    \A n \in TriedProbes :
        probeOutcome[n] \in {"timeout", "revert"} =>
            /\ n \notin Names(stateVars) \cup Names(variables)
            /\ n \notin Names(discoveredFunctions) \cup Names(functions)
            /\ error = Null

C1_Witness ==
    /\ pc = "done"
    /\ \E n \in TriedProbes :
          /\ probeOutcome[n] = "timeout"
          /\ n \in lateResolved
          /\ n \notin Names(variables)
    /\ \E m \in TriedProbes : probeOutcome[m] = "revert"

\* C2: once the code and the balance of a well-formed address have been
\* fetched, no combination of probe outcomes sets the error; the fetch ends
\* with loading false and the assembled variables published.
C2_ProbesNeverFail ==
    probeIdx >= 1 =>
        /\ error = Null
        /\ pc = "done" =>
              /\ ~isLoading
              /\ variables = stateVars
              /\ {"balance", "address", "contractType"} \subseteq Names(variables)

C2_Witness ==
    /\ pc = "done"
    /\ error = Null
    /\ probeOutcome["name"] = "revert"
    /\ probeOutcome["symbol"] = "timeout"
    /\ probeOutcome["decimals"] = "success"
    /\ probeOutcome["owner"] = "revert"
    /\ probeOutcome[DonationProbe] = "timeout"
    /\ Len(variables) = 4

\* C3: when getCode answers '0x' for a well-formed address the fetch ends
\* with the "No contract code at this address" error, loading is false and
\* getCode is the only request that was issued.
C3_EmptyCodeFails ==
    code = EmptyCode =>
        /\ error = DetailsError("No contract code at this address")
        /\ ~isLoading
        /\ pc = "done"
        /\ rpcLog = {"getCode"}
        /\ inflight = {}

C3_Witness ==
    /\ code = EmptyCode
    /\ isAddress(contractAddress)
    /\ pc = "done"
    /\ error # Null

\* C4: when name, symbol and decimals all answered within their budget the
\* output has a contractType variable 'ERC20 Token' and the variables name,
\* symbol and decimals hold the returned strings unchanged and the returned
\* integer in decimal notation.
C4_ERC20Classified ==
    (/\ pc \in {"donation", "done"}
     /\ error = Null
     /\ \A n \in {"name", "symbol", "decimals"} : probeOutcome[n] = "success") =>
        LET out == IF pc = "done" THEN variables ELSE stateVars IN
        /\ ValueOf(out, "name") = {probeReturned["name"].s}
        /\ ValueOf(out, "symbol") = {probeReturned["symbol"].s}
        /\ ValueOf(out, "decimals") = {ToString(probeReturned["decimals"].n)}
        /\ "ERC20 Token" \in ValueOf(out, "contractType")

C4_Witness ==
    /\ pc = "done"
    /\ \A n \in {"name", "symbol", "decimals"} : probeOutcome[n] = "success"
    /\ probeReturned["name"] = Str("")
    /\ probeOutcome["owner"] = "success"
    /\ "ERC20 Token" \in ValueOf(variables, "contractType")
    /\ ValueOf(variables, "decimals") = {"18"}

\* C5: every no-argument signature of genericABI whose call returned within
\* its budget appears in the published variables and functions lists.
C5_CatalogProbeAppears ==
    (pc = "done" /\ error = Null) =>
        \A n \in genericABI :
            probeOutcome[n] = "success" =>
                n \in Names(variables) /\ n \in Names(functions)

-----------------------------------------------------------------------------
(* Properties of the transaction scan                                      *)

\* two address strings that denote the same account
SameAccount(a, b) ==
    \/ {a, b} \subseteq {AddrX, AddrXLower}
    \/ {a, b} \subseteq {AddrY, AddrYLower}

ScannedBlocks ==
    {r.arg : r \in {q \in txRequests : q.method = "getBlockWithTransactions"}}

\* the chain transactions of the scanned blocks that involve the target
Involved ==
    {i \in 1..Len(chainTxs) :
        /\ chainTxs[i].blockNumber \in ScannedBlocks
        /\ \/ SameAccount(chainTxs[i].from, address)
           \/ chainTxs[i].to # Null /\ SameAccount(chainTxs[i].to, address)}

\* C6: a scan without RPC failure publishes exactly the transactions of the
\* scanned blocks whose sender or receiver is the target address up to
\* letter case, each once, with the timestamp of its containing block.
C6_ExactlyTheMatching ==
    (txPc = "done" /\ txError = Null) =>
        /\ Len(transactions) = Cardinality(Involved)
        /\ \A i \in Involved :
              \E k \in 1..Len(transactions) :
                  /\ transactions[k].hash = chainTxs[i].hash
                  /\ transactions[k].from = chainTxs[i].from
                  /\ transactions[k].to = chainTxs[i].to
                  /\ transactions[k].blockNumber = chainTxs[i].blockNumber
                  /\ transactions[k].timestamp = BlockTimestamp(chainTxs[i].blockNumber)

C6_Witness ==
    /\ txPc = "done" /\ txError = Null
    /\ address = AddrX
    /\ Len(transactions) = 1
    /\ Len(chainTxs) = 2
    /\ transactions[1].to = AddrXLower
    /\ transactions[1].blockNumber = chainHeight - 1
    /\ chainHeight > SmallHeight

\* C7: the published list is ordered by non-increasing block number.
C7_NewestFirst ==
    (txPc = "done" /\ txError = Null) =>
        \A i \in 1..Len(transactions), j \in 1..Len(transactions) :
            i < j => transactions[i].blockNumber >= transactions[j].blockNumber

C7_Witness ==
    /\ txPc = "done" /\ txError = Null
    /\ Len(transactions) = 2
    /\ transactions[1].blockNumber > transactions[2].blockNumber
    /\ allTxs[1].blockNumber < allTxs[2].blockNumber

\* C8: the scan fetches the most recent 100 blocks when at least 100 blocks
\* exist and every block 0..B otherwise, and no other block.
C8_WindowOfHundred ==
    ScannedBlocks # {} =>
        ScannedBlocks =
            IF chainHeight + 1 >= WindowSize
            THEN (chainHeight - WindowSize + 1)..chainHeight
            ELSE 0..chainHeight

\* C9: a scan in which a request failed publishes no transaction, shows the
\* single failure message, has ended loading, and issues no further request.
C9_FailureAbortsScan ==
    /\ [](txError # Null =>
            /\ txError = TxFailure
            /\ transactions = <<>>
            /\ ~txIsLoading
            /\ txPc = "done")
    /\ [][txError # Null => txRequests' = txRequests /\ transactions' = transactions]_vars

C9_Witness ==
    /\ txError = TxFailure
    /\ Len(allTxs) = 2
    /\ transactions = <<>>
    /\ ~txIsLoading

-----------------------------------------------------------------------------
(* Properties of the node connector                                        *)

\* C10 as stated: after a failed connect the connector shows its error, has
\* ended loading and none of chain id, block height, accounts or contracts
\* is published.
C10_NoPartialResult ==
    nodeError # Null =>
        /\ nodeError = ConnectFailure
        /\ ~nodeIsLoading
        /\ chainId = -1
        /\ blockNumber = 0
        /\ accounts = <<>>
        /\ contracts = <<>>

\* C10 amended: after a failed connect the connector shows its single error,
\* has ended loading, issues no further request, publishes no contract list
\* and App renders the error screen only; chain id, block height and account
\* list keep the values set before the failing request.
C10_FailureAbortsConnect ==
    /\ [](nodeError # Null =>
            /\ nodeError = ConnectFailure
            /\ ~nodeIsLoading
            /\ nodePc = "done"
            /\ contracts = <<>>
            /\ AppView = "error"
            /\ chainId \in {-1, effectiveChainId(configChainId, networkChainId)}
            /\ blockNumber \in {0, chainHeight}
            /\ Len(accounts) \in {0, Len(nodeAccounts)})
    /\ [][nodeError # Null => UNCHANGED nodeVars]_vars

C10_Witness ==
    /\ nodeError = ConnectFailure
    /\ ~nodeIsLoading
    /\ chainId = DefaultChainId
    /\ blockNumber = 7
    /\ Len(accounts) = 2
    /\ contracts = <<>>
    /\ \E r \in nodeRequests : r.method = "getCode"

\* the low byte of base key + i, written out for i = 0..19
KeyLowBytes ==
    << "80", "81", "82", "83", "84", "85", "86", "87", "88", "89",
       "8a", "8b", "8c", "8d", "8e", "8f", "90", "91", "92", "93" >>

\* C11: after a successful connect the account list has one entry per node
\* account, in node order, and the key of each of the first 20 entries is
\* the base key plus its index.
C11_AccountsInNodeOrder ==
    (nodePc = "done" /\ nodeError = Null) =>
        /\ Len(accounts) = Len(nodeAccounts)
        /\ \A i \in 1..Len(accounts) :
              /\ accounts[i].address = nodeAccounts[i]
              /\ i <= KnownKeys => accounts[i].privateKey = BaseKeyHigh \o KeyLowBytes[i]

C11_Witness ==
    /\ nodePc = "done" /\ nodeError = Null
    /\ Len(accounts) = KnownKeys
    /\ accounts[KnownKeys].privateKey = BaseKeyHigh \o "93"
    /\ accounts[2].address = AddrPlain

\* the node accounts that hold code, in node order
AccountsWithCode == SelectSeq(nodeAccounts, LAMBDA a : chainCode[a] # EmptyCode)

\* C12: after a successful connect the contract list is one entry per node
\* account that holds code, in account order, followed by the manually
\* configured entry as last element.
C12_ContractsThenManual ==
    (nodePc = "done" /\ nodeError = Null) =>
        /\ Len(contracts) = Len(AccountsWithCode) + 1
        /\ contracts[Len(contracts)] =
              [name |-> "Donation Contract",
               address |-> "0x9fE46736679d2D9a65F0992F2272dE9f3c7fa6e0"]
        /\ \A j \in 1..Len(AccountsWithCode) :
              /\ contracts[j].address = AccountsWithCode[j]
              /\ chainCode[contracts[j].address] # EmptyCode

C12_Witness ==
    /\ nodePc = "done" /\ nodeError = Null
    /\ Len(nodeAccounts) = 2
    /\ chainCode[nodeAccounts[1]] = EmptyCode
    /\ chainCode[nodeAccounts[2]] # EmptyCode
    /\ Len(contracts) = 2
    /\ contracts[1].name = "Contract at 0x709979..."

\* n units of 10^-4 ether, written with four decimals
Fixed4(n) ==
    ToString(n \div 10000) \o "." \o ToString((n \div 1000) % 10) \o
    ToString((n \div 100) % 10) \o ToString((n \div 10) % 10) \o ToString(n % 10)

\* the whole units of 10^-4 ether in a wei amount, and the wei below them
WholeUnits(d) == DigitsToNat(SubSeq(PadLeft(d, 15), 1, Len(PadLeft(d, 15)) - 14))
BelowUnit(d) == SubSeq(PadLeft(d, 15), Len(PadLeft(d, 15)) - 13, Len(PadLeft(d, 15)))
IsHalfUnit(t) == t[1] = 5 /\ \A i \in 2..14 : t[i] = 0

C14_ShownTwoSeconds ==
    (sinceWrite # NoWrite /\ sinceWrite < CopyTimeout) => copied

\* what the card of the account at position i (from 1) has to show
ExpectedCard(i) ==
    [address |-> infoAccounts[i],
     privateKey |-> IF i <= KnownKeys THEN BaseKeyHigh \o KeyLowBytes[i] ELSE "N/A",
     balance |-> (IF infoBalance[infoAccounts[i]] = OneEther THEN "1.0000" ELSE "0.0000")
                     \o " ETH"]

\* C15: after a successful balance load for N accounts the Signer tab shows
\* the card of the first account only and the Accounts tab shows the cards
\* of the other N-1 accounts, once each and in node order, each card with
\* the key and balance of its own address.
C15_TabsShowOwnDetails ==
    (infoPc = "done" /\ ~infoFailed) =>
        LET N == Len(infoAccounts)
        IN  /\ (activeTab = "signer" /\ N >= 1) =>
                  renderTabContent = <<ExpectedCard(1)>>
            /\ activeTab = "accounts" =>
                  /\ renderTabContent # "spinner"
                  /\ Len(renderTabContent) = (IF N = 0 THEN 0 ELSE N - 1)
                  /\ \A j \in 1..(N - 1) : renderTabContent[j] = ExpectedCard(j + 1)

C15_Witness ==
    /\ infoPc = "done" /\ ~infoFailed
    /\ activeTab = "accounts"
    /\ Len(infoAccounts) = 3
    /\ infoArrived = <<3, 1, 2>>
    /\ infoBalance[infoAccounts[2]] # infoBalance[infoAccounts[3]]
    /\ Len(renderTabContent) = 2
    /\ renderTabContent[2].address = AddrY

\* C16: after a successful load the list holds every transaction of the
\* chain, in any block 0..B, whose sender or receiver is the account.
C16_AllTransactionsOfAccount ==
    (txPc = "done" /\ txError = Null) =>
        \A i \in 1..Len(chainTxs) :
            (\/ SameAccount(chainTxs[i].from, address)
             \/ chainTxs[i].to # Null /\ SameAccount(chainTxs[i].to, address))
                => \E k \in 1..Len(transactions) :
                       transactions[k].hash = chainTxs[i].hash

Decided == {"success", "revert", "timeout"}

\* C17 as stated: the probes are issued concurrently, all of them are in
\* flight before any of them has resolved or timed out.
C17_ProbesConcurrent ==
    (\E n \in TriedProbes : probeOutcome[n] \in Decided) =>
        \A m \in TriedProbes : probeOutcome[m] # "unissued"

\* C17, amended: the probes are issued one after another; a probe is issued
\* only after the race of the previous probe has been decided, so at most
\* one probe is awaited at any time.
C17_ProbesSequential ==
    /\ \A i \in 2..Len(ProbeNames) :
          probeOutcome[ProbeNames[i]] # "unissued" =>
              probeOutcome[ProbeNames[i - 1]] \in Decided
    /\ probeOutcome[DonationProbe] # "unissued" =>
          probeOutcome[ProbeNames[Len(ProbeNames)]] \in Decided
    /\ Cardinality({n \in AllProbes : probeOutcome[n] = "pending"}) <= 1

C17_Witness ==
    /\ probeOutcome["name"] = "timeout"
    /\ probeOutcome["symbol"] = "pending"
    /\ probeOutcome["decimals"] = "unissued"
    /\ "name" \in inflight

\* C18: whenever loading is finished, the variables, functions and error on
\* display were produced by the introspection of the address that is
\* selected now.
C18_ShownBelongsToSelected ==
    (~viewLoading /\ ~effectDue) =>
        /\ shownOf \in {Null, viewAddress}
        /\ errorOf \in {Null, viewAddress}

\* C19: once the code query and the balance query have returned, the
\* introspection terminates, with loading false and variables or an error
\* published, even if no probe call ever settles.
C19_ProbingTerminates ==
    (probeIdx >= 1) ~> (pc = "done" /\ ~isLoading /\ (variables # <<>> \/ error # Null))

C19_Witness ==
    /\ pc = "done" /\ ~isLoading /\ variables # <<>>
    /\ \A n \in AllProbes : probeOutcome[n] = "timeout"
    /\ inflight = AllProbes

ContractTypeLabels ==
    {"ERC20 Token", "Ownable Contract", "Donation Contract", "Unknown Contract"}

\* C20: a successful introspection publishes exactly one contractType
\* variable, and its value is one of the four labels.
C20_OneContractType ==
    (pc = "done" /\ error = Null /\ variables # <<>>) =>
        /\ Cardinality({i \in 1..Len(variables) : variables[i].name = "contractType"}) = 1
        /\ \A i \in 1..Len(variables) :
              variables[i].name = "contractType" =>
                  variables[i].value \in ContractTypeLabels

\* the values of the variables named contractType, in list order
ContractTypesOf(out) ==
    SelectSeq(out, LAMBDA v : v.name = "contractType")

Succeeded(n) == probeOutcome[n] = "success"

\* C21: the first contractType label is 'ERC20 Token' exactly when the
\* name, symbol and decimals probes all succeeded, otherwise 'Ownable
\* Contract' exactly when the owner probe succeeded, otherwise 'Unknown
\* Contract'; the outcome of totalSupply plays no part.
C21_LabelPrecedence ==
    (pc \in {"donation", "done"} /\ error = Null /\ probeIdx >= 1) =>
        LET out == IF pc = "done" THEN variables ELSE stateVars
            erc20 == Succeeded("name") /\ Succeeded("symbol") /\ Succeeded("decimals")
        IN  /\ ContractTypesOf(out) # <<>>
            /\ ContractTypesOf(out)[1].value =
                  (IF erc20 THEN "ERC20 Token"
                   ELSE IF Succeeded("owner") THEN "Ownable Contract"
                   ELSE "Unknown Contract")

C21_Witness ==
    /\ pc = "done" /\ error = Null
    /\ Succeeded("name") /\ Succeeded("symbol") /\ Succeeded("decimals")
    /\ Succeeded("owner")
    /\ probeOutcome["totalSupply"] = "timeout"
    /\ ContractTypesOf(variables)[1].value = "ERC20 Token"

\* C22: for a non-blank address that is not well formed the fetch ends with
\* the invalid-format error, loading false and no request issued at all;
\* for a blank address no fetch starts and loading ends without an error.
C22_InvalidAddressNoRpc ==
    /\ ~isAddress(contractAddress) =>
          /\ rpcLog = {} /\ inflight = {} /\ timers = {}
          /\ pc \in {"unmounted", "effect", "done"}
    /\ (pc = "done" /\ ~isAddress(contractAddress) /\ ~isBlank(contractAddress)) =>
          /\ error = "Failed to load contract details: Invalid contract address format"
          /\ ~isLoading
          /\ variables = <<>> /\ functions = <<>>
    /\ (pc = "done" /\ isBlank(contractAddress)) =>
          /\ error = Null
          /\ ~isLoading
          /\ variables = <<>> /\ functions = <<>>

C22_Witness ==
    /\ pc = "done"
    /\ contractAddress = "0x12345"
    /\ error # Null
    /\ rpcLog = {}

\* C23: a failed balance load of the account view does not leave the view
\* with loading finished, no account details and no error shown.  NodeInfo
\* keeps no error state, so nothing it renders can show the failure.
C23_BalanceFailureVisible ==
    infoFailed => ~(~isLoadingBalances /\ accountDetails = <<>>)

\* C24: after a successful connect the published chain id is the configured
\* one when that is a non-zero number and the node's one otherwise; the
\* network query is issued first in either case, and a connect that ended
\* after that query alone has failed and published no chain id.
C24_ConfiguredChainIdWins ==
    /\ (nodePc = "done" /\ nodeError = Null) =>
          chainId = (IF configChainId \in {0, NaN} THEN networkChainId ELSE configChainId)
    /\ nodePc \notin {"unmounted", "effect"} =>
          [method |-> "getNetwork", arg |-> ""] \in nodeRequests
    /\ (nodePc = "done" /\ Cardinality(nodeRequests) = 1) =>
          /\ nodeError # Null
          /\ chainId = -1

C24_Witness ==
    /\ nodePc = "done" /\ nodeError = Null
    /\ configChainId = 31337
    /\ networkChainId = 1337
    /\ chainId = 31337

\* C25: every request of the transaction scan is sent to the configured
\* endpoint.
C25_CallsGoToConfiguredUrl ==
    \A r \in txRequests : r.url = rpcUrl

\* C26: for every account index the key in the connector's AccountInfo is
\* the key the account view derives for that index, which is 'N/A' from
\* index 20 on.
C26_KeyDerivationsAgree ==
    (nodePc = "done" /\ nodeError = Null) =>
        \A i \in 1..Len(accounts) :
            /\ accounts[i].privateKey = hardhatKey(i - 1)
            /\ i > KnownKeys => accounts[i].privateKey = "N/A"

====
